---- MODULE Spec2Model ----
(***************************************************************************)
(* Model of zfs-snappers: the record parser (str2fs), the retention and    *)
(* eligibility functions of Zfs (filter_snaps, find_expendable_snapshots,  *)
(* next_snapshot_needed), the create/destroy wrappers and the loop of      *)
(* main.  Strings are sequences of one-character strings, so that          *)
(* formatting, prefix matching and splitting are computed.  Parsed         *)
(* integers are kept as a sign and a decimal magnitude, so that every      *)
(* value of a 64-bit field has a representation.                           *)
(***************************************************************************)
EXTENDS Integers, Sequences, FiniteSets, TLC

VARIABLES
    zfs,        \* the Zfs object: pretend, prefix, label, history, timestamp
    min_size,   \* Opt::min_size, an Option<usize>
    pool,       \* the snapshots the external tool holds, in listing order
    pool0,      \* the pool when the run started
    snsl,       \* main: the parsed snapshot listing
    fsl,        \* main: the parsed filesystem listing
    idx,        \* main: position of the for loop in fsl
    pc,         \* main: "start", "listed", "loop", "removing", "done",
                \* "panicked"; parser run: "parse", "parsed"; Zfs run: "api"
    cur,        \* the filesystem record of the current loop iteration
    evald,      \* TRUE once an iteration evaluated the retention functions
    found,      \* result of find_expendable_snapshots in the current iteration
    needed,     \* result of next_snapshot_needed in the current iteration
    exp_fs,     \* main: expendable snapshots still to be removed
    created,    \* what the external tool did with the create request of this iteration
    lastCreate, \* the last create_snapshot call: its record and its result
    lastRemove, \* the last remove_snapshot call: its record and its result
    passes,     \* per finished iteration: filesystem name, all requests succeeded
    calls,      \* requests issued to the external tool
    log,        \* info! lines "zfs snapshot ..." / "zfs destroy ..."
    errlog,     \* error! lines
    line,       \* parser run: the listing line given to str2fs
    kind,       \* parser run: the FsType given to str2fs
    parsed      \* parser run: outcome of str2fs

vars == <<zfs, min_size, pool, pool0, snsl, fsl, idx, pc, cur, evald, found,
          needed, exp_fs, created, lastCreate, lastRemove, passes, calls, log,
          errlog, line, kind, parsed>>

(***************************************************************************)
(* Bounds                                                                  *)
(***************************************************************************)
\* most snapshots the pool holds when a run starts
MaxSnaps == 3
\* largest retention count (--keep) of a run
MaxKeep == 2
\* largest --min-size of a run
MaxMinSize == 1
\* most tab-separated fields of a line given to the parser
MaxFields == 5
\* most calls of create_snapshot / remove_snapshot in a run of the Zfs object
MaxCalls == 2

(***************************************************************************)
(* Strings and integers                                                    *)
(***************************************************************************)
TAB == "\t"
NL == "\n"
AT == "@"

Digits == <<"0", "1", "2", "3", "4", "5", "6", "7", "8", "9">>

IsDigit(c) == \E i \in 1..Len(Digits) : Digits[i] = c

DigitVal(c) == (CHOOSE i \in 1..Len(Digits) : Digits[i] = c) - 1

AllDigits(s) == s # <<>> /\ \A i \in 1..Len(s) : IsDigit(s[i])

\* a digit string without its leading zeros ("0" for zero)
RECURSIVE StripZeros(_)
StripZeros(s) ==
    IF Len(s) > 1 /\ s[1] = "0" THEN StripZeros(Tail(s)) ELSE s

\* a < b for two magnitudes without leading zeros
MagLess(a, b) ==
    \/ Len(a) < Len(b)
    \/ /\ Len(a) = Len(b)
       /\ \E i \in 1..Len(a) :
             /\ \A j \in 1..(i - 1) : a[j] = b[j]
             /\ DigitVal(a[i]) < DigitVal(b[i])

\* An integer value: sign and magnitude; zero is not negative
MkNum(neg, digits) ==
    LET m == StripZeros(digits)
    IN  [neg |-> neg /\ m # <<"0">>, mag |-> m]

Zero == MkNum(FALSE, <<"0">>)

\* x < y and x <= y on integer values (Ord for usize, i64, DateTime)
NumLess(x, y) ==
    IF x.neg # y.neg THEN x.neg
    ELSE IF x.neg THEN MagLess(y.mag, x.mag)
    ELSE MagLess(x.mag, y.mag)

NumLeq(x, y) == ~NumLess(y, x)

\* usize::MAX, i64::MAX and the magnitude of i64::MIN on a 64-bit target
USIZE_MAX == <<"1", "8", "4", "4", "6", "7", "4", "4", "0", "7", "3", "7", "0", "9", "5", "5", "1", "6", "1", "5">>
I64_MAX == <<"9", "2", "2", "3", "3", "7", "2", "0", "3", "6", "8", "5", "4", "7", "7", "5", "8", "0", "7">>
I64_MIN_MAG == <<"9", "2", "2", "3", "3", "7", "2", "0", "3", "6", "8", "5", "4", "7", "7", "5", "8", "0", "8">>

\* str::parse::<usize>(): an optional '+', then decimal digits, at least one;
\* a value above usize::MAX is an Err (overflow)
parse_usize(s) ==
    LET body == IF s # <<>> /\ s[1] = "+" THEN Tail(s) ELSE s
    IN  IF AllDigits(body) /\ ~MagLess(USIZE_MAX, StripZeros(body))
        THEN [ok |-> TRUE, v |-> MkNum(FALSE, body)]
        ELSE [ok |-> FALSE, v |-> Zero]

\* str::parse::<i64>(): an optional '+' or '-', then decimal digits, at
\* least one; a value outside i64::MIN..=i64::MAX is an Err
parse_i64(s) ==
    LET signed == s # <<>> /\ (s[1] = "+" \/ s[1] = "-")
        neg == s # <<>> /\ s[1] = "-"
        body == IF signed THEN Tail(s) ELSE s
        limit == IF neg THEN I64_MIN_MAG ELSE I64_MAX
    IN  IF AllDigits(body) /\ ~MagLess(limit, StripZeros(body))
        THEN [ok |-> TRUE, v |-> MkNum(neg, body)]
        ELSE [ok |-> FALSE, v |-> Zero]

\* Result::unwrap_or_default() of a parsed integer
unwrap_or_default(r) == IF r.ok THEN r.v ELSE Zero

\* decimal formatting of a number, as the external tool prints it with -p
RECURSIVE FmtNat(_)
FmtNat(n) ==
    IF n < Len(Digits) THEN <<Digits[n + 1]>>
    ELSE FmtNat(n \div Len(Digits)) \o <<Digits[(n % Len(Digits)) + 1]>>

\* the integer value of a small natural number
Num(n) == MkNum(FALSE, FmtNat(n))

\* str::strip_prefix(p).is_some()
StartsWith(s, p) == Len(s) >= Len(p) /\ SubSeq(s, 1, Len(p)) = p

\* str::split(c): the pieces between the occurrences of c, at least one piece
RECURSIVE split(_, _)
split(s, c) ==
    IF \A i \in 1..Len(s) : s[i] # c THEN <<s>>
    ELSE LET i == CHOOSE k \in 1..Len(s) :
                      s[k] = c /\ \A j \in 1..(k - 1) : s[j] # c
         IN  <<SubSeq(s, 1, i - 1)>> \o split(SubSeq(s, i + 1, Len(s)), c)

\* [&str]::join(c)
RECURSIVE join(_, _)
join(ps, c) ==
    IF ps = <<>> THEN <<>>
    ELSE IF Len(ps) = 1 THEN ps[1]
    ELSE ps[1] \o <<c>> \o join(Tail(ps), c)

Range(s) == {s[i] : i \in 1..Len(s)}

\* Option<T>
None == [some |-> FALSE]
Some(x) == [some |-> TRUE, v |-> x]

(***************************************************************************)
(* Record parser                                                           *)
(***************************************************************************)
TRUE_STR == <<"t", "r", "u", "e">>
DASH_STR == <<"-">>

\* eval of the Option p.get(i)
eval(p, i) == IF i <= Len(p) THEN p[i] = TRUE_STR ELSE FALSE

\* The seconds NaiveDateTime::from_timestamp accepts: from the first second
\* of chrono's NaiveDate::MIN to the last second of NaiveDate::MAX
TIMESTAMP_MIN == MkNum(TRUE, <<"8", "3", "3", "4", "6", "0", "1", "2", "2", "8", "8", "0", "0">>)
TIMESTAMP_MAX == MkNum(FALSE, <<"8", "2", "1", "0", "2", "6", "6", "8", "7", "6", "7", "9", "9">>)

\* NaiveDateTime::from_timestamp(secs, 0) panics on seconds out of range
from_timestamp_panics(secs) ==
    NumLess(secs, TIMESTAMP_MIN) \/ NumLess(TIMESTAMP_MAX, secs)

\* str2fs panics when the line has fewer than five fields (p[4] is an index
\* out of bounds) and when the creation field is an i64 out of chrono's range
str2fs_panics(str) ==
    LET p == split(str, TAB)
    IN  IF Len(p) < 5 THEN TRUE
        ELSE from_timestamp_panics(unwrap_or_default(parse_i64(p[5])))

\* str2fs on a line it does not panic on
str2fs(str, fs_type) ==
    LET p == split(str, TAB)
        name == p[1]
    IN  [name    |-> name,
         written |-> unwrap_or_default(parse_usize(p[2])),
         snap    |-> eval(p, 3) \/ eval(p, 4),
         date    |-> unwrap_or_default(parse_i64(p[5])),
         fs_type |-> fs_type,
         fs      |-> IF fs_type = "Filesystem" THEN name
                     ELSE split(name, AT)[1]]

(***************************************************************************)
(* Zfs: construction, naming, retention, eligibility                       *)
(***************************************************************************)
\* Zfs::new
Zfs_new(pretend, prefix, label, history, date) ==
    [pretend |-> pretend, prefix |-> prefix, label |-> label,
     history |-> history, timestamp |-> date]

\* ZfsBuilder::default().prefix(..).label(..).history(..).date(..).build():
\* main sets these four fields and no other; pretend keeps its default
ZfsBuilder_build(prefix, label, history, date) ==
    Zfs_new(FALSE, prefix, label, history, date)

\* Zfs::sname: format!("{name}@{prefix}_{label}-{ts}"), ts the given timestamp
\* or the timestamp of the run
sname(self, name, timestamp) ==
    LET ts == IF timestamp.some THEN timestamp.v ELSE self.timestamp
    IN  name \o <<AT>> \o self.prefix \o <<"_">> \o self.label \o <<"-">> \o ts

\* snaps.sort_unstable_by(|a, b| a.date.cmp(&b.date)): ascending by date.  An
\* unstable sort may leave elements of equal date in any order: the set of
\* the orders it can return.
sort_unstable_by_date(s) ==
    IF s = <<>> THEN {<<>>}
    ELSE LET n == Len(s)
             sorted(q) == \A i \in 1..(n - 1) : NumLeq(s[q[i]].date, s[q[i + 1]].date)
         IN  {[i \in 1..n |-> s[q[i]]] : q \in {r \in Permutations(1..n) : sorted(r)}}

\* a filter that forgets the '@' and the naming scheme
filter_snaps_by_fs_prefix(self, fs, snaps) ==
    sort_unstable_by_date(SelectSeq(snaps, LAMBDA sn : StartsWith(sn.name, fs.name)))

\* Zfs::filter_snaps: the results it can return
filter_snaps(self, fs, snaps) ==
    LET name == sname(self, fs.name, Some(<<>>))
    IN  sort_unstable_by_date(SelectSeq(snaps, LAMBDA sn : StartsWith(sn.name, name)))

\* Zfs::find_expendable_snapshots: the results it can return
find_expendable_snapshots(self, fs, snaps) ==
    {IF Len(s) > self.history THEN SubSeq(s, 1, Len(s) - self.history) ELSE <<>> :
        s \in filter_snaps(self, fs, snaps)}

\* Zfs::next_snapshot_needed: the results it can return
next_snapshot_needed(self, min, fs, snaps) ==
    {IF s # <<>> THEN NumLess(Num(min), s[Len(s)].written) ELSE TRUE :
        s \in filter_snaps(self, fs, snaps)}

(***************************************************************************)
(* Zfs: requests to the external tool                                      *)
(***************************************************************************)
\* What process::Command::output() can meet: the tool cannot be started (an
\* io::Error), it runs and exits with a failure status, it runs and succeeds
Outcomes == {"spawn_fail", "exit_nonzero", "ok"}

\* Zfs::create_snapshot: Err only when output() returns an io::Error; the exit
\* status of the tool is not looked at.
create_snapshot(self, fs, outcome) ==
    LET req == [op |-> "snapshot", name |-> sname(self, fs.name, None)]
    IN  [req    |-> req,
         logged |-> TRUE,
         issued |-> ~self.pretend,
         res    |-> IF ~self.pretend /\ outcome = "spawn_fail"
                    THEN "IOError" ELSE "Ok"]

\* Zfs::remove_snapshot: the guard reads fs.snap
remove_snapshot(self, fs, outcome) ==
    LET req == [op |-> "destroy", name |-> fs.name]
    IN  IF ~fs.snap
        THEN [req |-> req, logged |-> FALSE, issued |-> FALSE,
              res |-> "InternalError"]
        ELSE [req    |-> req,
              logged |-> TRUE,
              issued |-> ~self.pretend,
              res    |-> IF ~self.pretend /\ outcome = "spawn_fail"
                         THEN "IOError" ELSE "Ok"]

\* the non-empty lines of the stdout of a listing
listing_lines(stdout) == SelectSeq(split(stdout, NL), LAMBDA l : l # <<>>)

\* A byte that no UTF-8 text holds (0xFF), as one element of a stdout
BYTE_FF == "0xFF"

\* String::from_utf8(ret.stdout) is an Err when the stdout holds such a byte
from_utf8_fails(stdout) == \E i \in 1..Len(stdout) : stdout[i] = BYTE_FF

\* Zfs::list_filesystems panics when the tool cannot be started (expect), when
\* its stdout is not UTF-8 (unwrap) and when str2fs panics on a line
list_filesystems_panics(outcome, stdout) ==
    \/ outcome = "spawn_fail"
    \/ from_utf8_fails(stdout)
    \/ \E l \in Range(listing_lines(stdout)) : str2fs_panics(l)

\* Zfs::list_filesystems, from the stdout of the tool on: the non-empty lines,
\* each parsed by str2fs; the exit status is not looked at
list_filesystems(stdout, fst) ==
    LET lines == listing_lines(stdout)
    IN  [i \in 1..Len(lines) |-> str2fs(lines[i], fst)]

(***************************************************************************)
(* The external tool                                                       *)
(***************************************************************************)
\* One line of "zfs list -Hp -o name,used,<op>,<op>:<label>,creation"
ToolLine(d) ==
    join(<<d.name, FmtNat(d.used), d.inh, d.loc, FmtNat(d.creation)>>, TAB)

\* The stdout of a complete listing: one line per dataset, each ended by a
\* newline
RECURSIVE ToolList(_)
ToolList(ds) ==
    IF ds = <<>> THEN <<>>
    ELSE ToolLine(Head(ds)) \o <<NL>> \o ToolList(Tail(ds))

\* The stdout of a listing in which the value of the local property of the
\* first dataset holds a byte that is not UTF-8 (a user property is free
\* text)
ToolListNotUtf8(ds) ==
    IF ds = <<>> THEN {}
    ELSE {ToolList([ds EXCEPT ![1].loc = <<BYTE_FF>>])}

\* The stdout a listing can give: all lines when the tool succeeds, the
\* first k lines (none, some or all) when it exits with a failure status,
\* nothing when it cannot be started; a tool that runs can print a property
\* value that is not UTF-8
ToolListOutputs(ds, outcome) ==
    IF outcome = "ok" THEN {ToolList(ds)} \cup ToolListNotUtf8(ds)
    ELSE IF outcome = "spawn_fail" THEN {<<>>}
    ELSE {ToolList(SubSeq(ds, 1, k)) : k \in 0..Len(ds)} \cup ToolListNotUtf8(ds)

\* The outcomes a request can have: a snapshot whose name exists cannot be
\* created, a snapshot that does not exist cannot be destroyed.
ToolOutcomes(ds, req) ==
    LET exists == \E i \in 1..Len(ds) : ds[i].name = req.name
    IN  {o \in Outcomes : o = "ok" => ((req.op = "snapshot") = ~exists)}

\* The datasets after a request with the given outcome.  fs, prefix and label
\* record which filesystem and which run configuration a snapshot was made
\* for; the tool does not print them.
ToolApply(ds, req, outcome, self, fs) ==
    IF outcome # "ok" THEN ds
    ELSE IF req.op = "snapshot"
    THEN Append(ds, [name |-> req.name, used |-> 0, inh |-> DASH_STR,
                     loc |-> DASH_STR, creation |-> Len(Digits) - 1,
                     fs |-> fs.name, prefix |-> self.prefix,
                     label |-> self.label])
    ELSE SelectSeq(ds, LAMBDA d : d.name # req.name)

(***************************************************************************)
(* Inputs                                                                  *)
(***************************************************************************)
FS_T == <<"t">>
FS_TS == <<"t", "/", "s">>
FS_A == <<"a">>
PREFIX_P == <<"p">>
LABEL_D == <<"d">>
LABEL_DX == <<"d", "-", "x">>
RUN_TS == <<"9">>

\* A snapshot of filesystem f made by a run with prefix PREFIX_P, label l and
\* timestamp ts
Snap(f, l, ts, used, inh, loc, creation) ==
    [name |-> sname(Zfs_new(FALSE, PREFIX_P, l, 0, ts), f, None),
     used |-> used, inh |-> inh, loc |-> loc, creation |-> creation,
     fs |-> f, prefix |-> PREFIX_P, label |-> l]

\* The snapshots a pool is drawn from: two of t with the same creation time,
\* one whose property columns are both "-", one of another label, one of a
\* filesystem whose name starts with "t".
Candidates ==
    <<Snap(FS_T, LABEL_D, <<"1">>, 2, TRUE_STR, DASH_STR, 1),
      Snap(FS_T, LABEL_D, <<"2">>, 0, TRUE_STR, DASH_STR, 1),
      Snap(FS_T, LABEL_D, <<"3">>, 1, DASH_STR, DASH_STR, 2),
      Snap(FS_T, LABEL_DX, <<"1">>, 2, DASH_STR, TRUE_STR, 3),
      Snap(FS_TS, LABEL_D, <<"1">>, 1, TRUE_STR, DASH_STR, 1)>>

\* The filesystems of the pool, in the order of the listing (by name): a not
\* opted in, t and t/s opted in
Filesystems ==
    <<[name |-> FS_A, used |-> 4, inh |-> DASH_STR, loc |-> DASH_STR, creation |-> 1],
      [name |-> FS_T, used |-> 5, inh |-> TRUE_STR, loc |-> DASH_STR, creation |-> 1],
      [name |-> FS_TS, used |-> 3, inh |-> DASH_STR, loc |-> TRUE_STR, creation |-> 1]>>

\* At most MaxSnaps distinct candidates, in the order the tool lists them (by
\* name, the order of Candidates)
Pools ==
    UNION {{[i \in 1..n |-> Candidates[q[i]]] :
              q \in {r \in [1..n -> 1..Len(Candidates)] :
                       \A i, j \in 1..n : i < j => r[i] < r[j]}} :
           n \in 0..MaxSnaps}

NoFS == [name |-> <<>>, written |-> Zero, snap |-> FALSE, date |-> Zero,
         fs_type |-> "Filesystem", fs |-> <<>>]

NoCreate == [res |-> "none", rec |-> NoFS, issued |-> FALSE, logged |-> FALSE]

NoRemove == [res |-> "none", rec |-> NoFS, issued |-> FALSE, logged |-> FALSE]

(***************************************************************************)
(* main                                                                    *)
(***************************************************************************)
Init ==
    /\ zfs \in {ZfsBuilder_build(PREFIX_P, l, h, RUN_TS) :
                   l \in {LABEL_D, LABEL_DX}, h \in 0..MaxKeep}
    /\ min_size \in {None} \cup {Some(n) : n \in 0..MaxMinSize}
    /\ pool \in Pools
    /\ pool0 = pool
    /\ snsl = <<>>
    /\ fsl = <<>>
    /\ idx = 1
    /\ pc = "start"
    /\ cur = NoFS
    /\ evald = FALSE
    /\ found = <<>>
    /\ needed = TRUE
    /\ exp_fs = <<>>
    /\ created = "none"
    /\ lastCreate = NoCreate
    /\ lastRemove = NoRemove
    /\ passes = <<>>
    /\ calls = <<>>
    /\ log = <<>>
    /\ errlog = <<>>
    /\ line = <<>>
    /\ kind = "Filesystem"
    /\ parsed = [status |-> "none"]

\* main, line 73: the snapshots are listed and parsed; a tool that cannot be
\* started ends the run in a panic
ListSnapshots ==
    /\ pc = "start"
    /\ \E outcome \in Outcomes :
         \E stdout \in ToolListOutputs(pool, outcome) :
           IF list_filesystems_panics(outcome, stdout)
           THEN pc' = "panicked" /\ snsl' = snsl
           ELSE pc' = "listed" /\ snsl' = list_filesystems(stdout, "Snapshot")
    /\ UNCHANGED <<zfs, min_size, pool, pool0, fsl, idx, cur, evald, found,
                   needed, exp_fs, created, lastCreate, lastRemove, passes,
                   calls, log, errlog, line, kind, parsed>>

\* main, lines 74-75: the filesystems are listed and parsed
ListFilesystems ==
    /\ pc = "listed"
    /\ \E outcome \in Outcomes :
         \E stdout \in ToolListOutputs(Filesystems, outcome) :
           IF list_filesystems_panics(outcome, stdout)
           THEN pc' = "panicked" /\ fsl' = fsl
           ELSE pc' = "loop" /\ fsl' = list_filesystems(stdout, "Filesystem")
    /\ UNCHANGED <<zfs, min_size, pool, pool0, snsl, idx, cur, evald, found,
                   needed, exp_fs, created, lastCreate, lastRemove, passes,
                   calls, log, errlog, line, kind, parsed>>

\* main, line 77: .filter(|f| f.snap) passes over a filesystem not opted in
SkipUnflagged ==
    /\ pc = "loop"
    /\ idx <= Len(fsl)
    /\ ~fsl[idx].snap
    /\ idx' = idx + 1
    /\ UNCHANGED <<zfs, min_size, pool, pool0, snsl, fsl, pc, cur, evald,
                   found, needed, exp_fs, created, lastCreate, lastRemove,
                   passes, calls, log, errlog, line, kind, parsed>>

\* main, line 81: no threshold given, or the eligibility check says yes; the
\* answers it can give
Eligible(min, self, fs, snaps) ==
    IF min.some THEN next_snapshot_needed(self, min.v, fs, snaps) ELSE {TRUE}

\* main, lines 80-81: the retention functions are evaluated; the filesystem
\* is not eligible and the iteration ends
SkipIneligible ==
    /\ pc = "loop"
    /\ idx <= Len(fsl)
    /\ fsl[idx].snap
    /\ FALSE \in Eligible(min_size, zfs, fsl[idx], snsl)
    /\ cur' = fsl[idx]
    /\ evald' = TRUE
    /\ found' \in find_expendable_snapshots(zfs, fsl[idx], snsl)
    /\ needed' = FALSE
    /\ created' = "none"
    /\ idx' = idx + 1
    /\ UNCHANGED <<zfs, min_size, pool, pool0, snsl, fsl, pc, exp_fs,
                   lastCreate, lastRemove, passes, calls, log, errlog, line,
                   kind, parsed>>

\* main, lines 80-84 and 92: the retention functions are evaluated, the
\* filesystem is eligible and create_snapshot is called; Ok goes on to the
\* removals, Err is logged and ends the iteration
CreateStep ==
    /\ pc = "loop"
    /\ idx <= Len(fsl)
    /\ fsl[idx].snap
    /\ TRUE \in Eligible(min_size, zfs, fsl[idx], snsl)
    /\ LET fs == fsl[idx]
           req == [op |-> "snapshot", name |-> sname(zfs, fs.name, None)]
       IN  \E outcome \in ToolOutcomes(pool, req) :
           \E exp \in find_expendable_snapshots(zfs, fs, snsl) :
             LET r == create_snapshot(zfs, fs, outcome)
             IN  /\ cur' = fs
                 /\ evald' = TRUE
                 /\ found' = exp
                 /\ needed' = TRUE
                 /\ log' = IF r.logged THEN Append(log, r.req) ELSE log
                 /\ calls' = IF r.issued
                             THEN Append(calls, [req |-> r.req, outcome |-> outcome,
                                                 created |-> "none"])
                             ELSE calls
                 /\ pool' = IF r.issued THEN ToolApply(pool, r.req, outcome, zfs, fs)
                            ELSE pool
                 /\ created' = IF r.issued THEN outcome ELSE "pretended"
                 /\ lastCreate' = [res |-> r.res, rec |-> fs, issued |-> r.issued,
                                   logged |-> r.logged]
                 /\ IF r.res = "Ok"
                    THEN /\ exp_fs' = exp
                         /\ pc' = "removing"
                         /\ UNCHANGED <<idx, errlog>>
                    ELSE /\ errlog' = Append(errlog, r.res)
                         /\ idx' = idx + 1
                         /\ UNCHANGED <<exp_fs, pc>>
    /\ UNCHANGED <<zfs, min_size, pool0, snsl, fsl, lastRemove, passes, line,
                   kind, parsed>>

\* main, lines 85-90: remove_snapshot on the next expendable snapshot; an Err
\* is logged and the loop goes on
RemoveStep ==
    /\ pc = "removing"
    /\ exp_fs # <<>>
    /\ LET exp == Head(exp_fs)
           req == [op |-> "destroy", name |-> exp.name]
       IN  \E outcome \in ToolOutcomes(pool, req) :
             LET r == remove_snapshot(zfs, exp, outcome)
             IN  /\ log' = IF r.logged THEN Append(log, r.req) ELSE log
                 /\ calls' = IF r.issued
                             THEN Append(calls, [req |-> r.req, outcome |-> outcome,
                                                 created |-> created])
                             ELSE calls
                 /\ pool' = IF r.issued THEN ToolApply(pool, r.req, outcome, zfs, cur)
                            ELSE pool
                 /\ lastRemove' = [res |-> r.res, rec |-> exp, issued |-> r.issued,
                                   logged |-> r.logged]
                 /\ errlog' = IF r.res = "Ok" THEN errlog ELSE Append(errlog, r.res)
    /\ exp_fs' = Tail(exp_fs)
    /\ UNCHANGED <<zfs, min_size, pool0, snsl, fsl, idx, pc, cur, evald, found,
                   needed, created, lastCreate, passes, line, kind, parsed>>

\* main, line 91: the removals of this filesystem are through
FinishFs ==
    /\ pc = "removing"
    /\ exp_fs = <<>>
    /\ passes' = Append(passes,
                         [name    |-> cur.name,
                          created |-> created,
                          removed |-> \A i \in 1..Len(found) :
                                        \A j \in 1..Len(pool) :
                                          pool[j].name # found[i].name])
    /\ idx' = idx + 1
    /\ pc' = "loop"
    /\ UNCHANGED <<zfs, min_size, pool, pool0, snsl, fsl, cur, evald, found,
                   needed, exp_fs, created, lastCreate, lastRemove, calls, log,
                   errlog, line, kind, parsed>>

\* main, line 95: the for loop is through
Finish ==
    /\ pc = "loop"
    /\ idx > Len(fsl)
    /\ pc' = "done"
    /\ UNCHANGED <<zfs, min_size, pool, pool0, snsl, fsl, idx, cur, evald,
                   found, needed, exp_fs, created, lastCreate, lastRemove,
                   passes, calls, log, errlog, line, kind, parsed>>

Next ==
    \/ ListSnapshots
    \/ ListFilesystems
    \/ SkipUnflagged
    \/ SkipIneligible
    \/ CreateStep
    \/ RemoveStep
    \/ FinishFs
    \/ Finish

Spec == Init /\ [][Next]_vars

(***************************************************************************)
(* The Zfs object on its own: create_snapshot and remove_snapshot called   *)
(* on the records of the listings, in any order                            *)
(***************************************************************************)
InitZfs ==
    /\ zfs \in {Zfs_new(p, PREFIX_P, LABEL_D, 0, RUN_TS) : p \in BOOLEAN}
    /\ pool \in {SubSeq(Candidates, 1, n) :
                    n \in {k \in 0..MaxSnaps : k <= Len(Candidates)}}
    /\ pool0 = pool
    /\ snsl = list_filesystems(ToolList(pool), "Snapshot")
    /\ fsl = list_filesystems(ToolList(Filesystems), "Filesystem")
    /\ pc = "api"
    /\ idx = 1
    /\ min_size = None
    /\ cur = NoFS
    /\ evald = FALSE
    /\ found = <<>>
    /\ needed = TRUE
    /\ exp_fs = <<>>
    /\ created = "none"
    /\ lastCreate = NoCreate
    /\ lastRemove = NoRemove
    /\ passes = <<>>
    /\ calls = <<>>
    /\ log = <<>>
    /\ errlog = <<>>
    /\ line = <<>>
    /\ kind = "Filesystem"
    /\ parsed = [status |-> "none"]

\* a call of Zfs::create_snapshot on a listed filesystem
ZfsCreate ==
    /\ pc = "api"
    /\ idx <= MaxCalls
    /\ \E fs \in Range(fsl) :
         LET req == [op |-> "snapshot", name |-> sname(zfs, fs.name, None)]
         IN  \E outcome \in ToolOutcomes(pool, req) :
               LET r == create_snapshot(zfs, fs, outcome)
               IN  /\ log' = IF r.logged THEN Append(log, r.req) ELSE log
                   /\ calls' = IF r.issued
                               THEN Append(calls, [req |-> r.req, outcome |-> outcome,
                                                   created |-> "none"])
                               ELSE calls
                   /\ pool' = IF r.issued THEN ToolApply(pool, r.req, outcome, zfs, fs)
                              ELSE pool
                   /\ lastCreate' = [res |-> r.res, rec |-> fs, issued |-> r.issued,
                                     logged |-> r.logged]
    /\ idx' = idx + 1
    /\ UNCHANGED <<zfs, min_size, pool0, snsl, fsl, pc, cur, evald, found,
                   needed, exp_fs, created, lastRemove, passes, errlog, line,
                   kind, parsed>>

\* a call of Zfs::remove_snapshot on a listed snapshot
ZfsRemove ==
    /\ pc = "api"
    /\ idx <= MaxCalls
    /\ \E sn \in Range(snsl) :
         LET req == [op |-> "destroy", name |-> sn.name]
         IN  \E outcome \in ToolOutcomes(pool, req) :
               LET r == remove_snapshot(zfs, sn, outcome)
               IN  /\ log' = IF r.logged THEN Append(log, r.req) ELSE log
                   /\ calls' = IF r.issued
                               THEN Append(calls, [req |-> r.req, outcome |-> outcome,
                                                   created |-> "none"])
                               ELSE calls
                   /\ pool' = IF r.issued
                              THEN ToolApply(pool, r.req, outcome, zfs, sn)
                              ELSE pool
                   /\ lastRemove' = [res |-> r.res, rec |-> sn, issued |-> r.issued,
                                     logged |-> r.logged]
    /\ idx' = idx + 1
    /\ UNCHANGED <<zfs, min_size, pool0, snsl, fsl, pc, cur, evald, found,
                   needed, exp_fs, created, lastCreate, passes, errlog, line,
                   kind, parsed>>

NextZfs ==
    \/ ZfsCreate
    \/ ZfsRemove

SpecZfs == InitZfs /\ [][NextZfs]_vars

(***************************************************************************)
(* The parser on its own                                                   *)
(***************************************************************************)
\* The fields a line is made of; a line has the first n of them.  Sizes and
\* creation times: plain, signed, not a number, empty, at and beyond the
\* limits of usize and of both ends of chrono's range.
ParseFields ==
    {<<n, u, a, b, c>> :
        n \in {FS_T, sname(Zfs_new(FALSE, PREFIX_P, LABEL_D, 0, RUN_TS), FS_TS, None)},
        u \in {<<"7">>, <<"+", "7">>, <<"-", "5">>, <<"x">>, <<>>,
               USIZE_MAX, <<"1", "8", "4", "4", "6", "7", "4", "4", "0", "7", "3", "7", "0", "9", "5", "5", "1", "6", "1", "6">>},
        a \in {TRUE_STR, DASH_STR},
        b \in {TRUE_STR, DASH_STR},
        c \in {<<"5">>, <<"+", "7">>, <<"-", "5">>, <<"x">>,
               TIMESTAMP_MAX.mag, <<"8", "2", "1", "0", "2", "6", "6", "8", "7", "6", "8", "0", "0">>,
               <<"-">> \o TIMESTAMP_MIN.mag,
               <<"-", "8", "3", "3", "4", "6", "0", "1", "2", "2", "8", "8", "0", "1">>}}

ParseLines ==
    {join(SubSeq(f \o [i \in 1..MaxFields |-> <<"z">>], 1, n), TAB) :
        f \in ParseFields, n \in 1..MaxFields}

InitParse ==
    /\ line \in ParseLines
    /\ kind \in {"Filesystem", "Snapshot"}
    /\ parsed = [status |-> "none"]
    /\ pc = "parse"
    /\ zfs = Zfs_new(TRUE, PREFIX_P, LABEL_D, 0, RUN_TS)
    /\ min_size = None
    /\ pool = <<>>
    /\ pool0 = <<>>
    /\ snsl = <<>>
    /\ fsl = <<>>
    /\ idx = 1
    /\ cur = NoFS
    /\ evald = FALSE
    /\ found = <<>>
    /\ needed = TRUE
    /\ exp_fs = <<>>
    /\ created = "none"
    /\ lastCreate = NoCreate
    /\ lastRemove = NoRemove
    /\ passes = <<>>
    /\ calls = <<>>
    /\ log = <<>>
    /\ errlog = <<>>

\* str2fs returns a record
ParseOk ==
    /\ pc = "parse"
    /\ ~str2fs_panics(line)
    /\ parsed' = [status |-> "ok", fs |-> str2fs(line, kind)]
    /\ pc' = "parsed"
    /\ UNCHANGED <<zfs, min_size, pool, pool0, snsl, fsl, idx, cur, evald,
                   found, needed, exp_fs, created, lastCreate, lastRemove,
                   passes, calls, log, errlog, line, kind>>

\* str2fs panics
ParsePanic ==
    /\ pc = "parse"
    /\ str2fs_panics(line)
    /\ parsed' = [status |-> "panic"]
    /\ pc' = "parsed"
    /\ UNCHANGED <<zfs, min_size, pool, pool0, snsl, fsl, idx, cur, evald,
                   found, needed, exp_fs, created, lastCreate, lastRemove,
                   passes, calls, log, errlog, line, kind>>

NextParse ==
    \/ ParseOk
    \/ ParsePanic

SpecParse == InitParse /\ [][NextParse]_vars

(***************************************************************************)
(* Properties                                                              *)
(***************************************************************************)
\* The run configuration a snapshot of the initial pool was made under
MadeByThisRun(name) ==
    \A i \in 1..Len(pool0) :
        pool0[i].name = name =>
            pool0[i].prefix = zfs.prefix /\ pool0[i].label = zfs.label

\* M: the records of the listing that are owned by the current filesystem
\* and were named by a run with the prefix and the label of this run
Matching == {sn \in Range(snsl) : sn.fs = cur.name /\ MadeByThisRun(sn.name)}

\* The characters of dataset names, in the order of their codes
CharOrder ==
    <<"-", "/", "0", "1", "2", "3", "4", "5", "6", "7", "8", "9", "@", "_",
      "a", "d", "p", "s", "t", "x">>

Ord(c) == CHOOSE i \in 1..Len(CharOrder) : CharOrder[i] = c

\* Name ordering: a comes before b, character by character
RECURSIVE NameLess(_, _)
NameLess(a, b) ==
    IF b = <<>> THEN FALSE
    ELSE IF a = <<>> THEN TRUE
    ELSE IF Head(a) # Head(b) THEN Ord(Head(a)) < Ord(Head(b))
    ELSE NameLess(Tail(a), Tail(b))

\* The recency order: by creation time, a tie broken by name
Older(a, b) ==
    \/ NumLess(a.date, b.date)
    \/ a.date = b.date /\ NameLess(a.name, b.name)

\* The n oldest records of a set
Oldest(S, n) == {r \in S : Cardinality({k \in S : Older(k, r)}) < n}

\* C1: find_expendable_snapshots returns exactly the |M| - keep oldest
\* records of M in the recency order when |M| > keep and none otherwise
\* (all of M when keep = 0), without repetition; the keep most recent
\* records of M are not returned.
C1_ExpendableAreOldest ==
    evald =>
        LET n == Cardinality(Matching)
            e == IF n > zfs.history THEN n - zfs.history ELSE 0
        IN  /\ Len(found) = e
            /\ Range(found) = Oldest(Matching, e)

\* C2: remove_snapshot returns InternalError exactly for a record that is not
\* of kind Snapshot, and then issues no request; for a record of kind
\* Snapshot the request is issued, or logged in a dry run.
C2_InternalErrorIffNotSnapshot ==
    lastRemove.res # "none" =>
        /\ (lastRemove.res = "InternalError")
              <=> (lastRemove.rec.fs_type # "Snapshot")
        /\ lastRemove.res = "InternalError" => ~lastRemove.issued
        /\ lastRemove.rec.fs_type = "Snapshot" =>
              /\ lastRemove.logged
              /\ lastRemove.issued \/ zfs.pretend

\* C3: every destroy request was issued after the creation of the new
\* snapshot of the same iteration had succeeded.
C3_DestroyOnlyAfterCreated ==
    \A i \in 1..Len(calls) :
        calls[i].req.op = "destroy" => calls[i].created = "ok"

\* C4: after an iteration whose creation and destructions all succeeded, in
\* a run whose snapshot listing was complete, at most keep snapshots of that
\* filesystem made under the run's prefix and label exist.
C4_AtMostKeepRemain ==
    \A i \in 1..Len(passes) :
        (/\ Len(snsl) = Len(pool0)
         /\ passes[i].created = "ok"
         /\ passes[i].removed) =>
            Cardinality({j \in 1..Len(pool) :
                            /\ pool[j].fs = passes[i].name
                            /\ pool[j].prefix = zfs.prefix
                            /\ pool[j].label = zfs.label}) <= zfs.history

\* C5: next_snapshot_needed is true when no record matches; otherwise it is
\* true exactly when the most recent record of M in the recency order has
\* written > min_size.
C5_NeededIffWrittenExceeds ==
    (evald /\ min_size.some) =>
        IF Matching = {} THEN needed
        ELSE \A r \in Matching :
                (\A k \in Matching \ {r} : Older(k, r)) =>
                    needed = NumLess(Num(min_size.v), r.written)

\* C6: every record find_expendable_snapshots returns is owned by the
\* filesystem it was asked for.
C6_OnlyOwnSnapshots ==
    evald => \A r \in Range(found) : r.fs = cur.name

\* C6 witness: records are returned for t while the listing holds a snapshot
\* of t/s
C6_Witness ==
    /\ evald
    /\ cur.name = FS_T
    /\ found # <<>>
    /\ \E sn \in Range(snsl) : sn.fs = FS_TS

\* C7: with pretend set no request reaches the external tool and the pool
\* stays as it was, whatever is called; every create is logged and returns
\* Ok, and so does every remove of a record of kind Snapshot.
C7_DryRunChangesNothing ==
    zfs.pretend =>
        /\ calls = <<>>
        /\ pool = pool0
        /\ lastCreate.res # "none" =>
              /\ lastCreate.res = "Ok"
              /\ lastCreate.logged
              /\ \E i \in 1..Len(log) :
                    log[i] = [op   |-> "snapshot",
                              name |-> sname(zfs, lastCreate.rec.name, None)]
        /\ (lastRemove.res # "none" /\ lastRemove.rec.fs_type = "Snapshot") =>
              /\ lastRemove.res = "Ok"
              /\ lastRemove.logged
              /\ \E i \in 1..Len(log) :
                    log[i] = [op |-> "destroy", name |-> lastRemove.rec.name]

\* C8: a line of at least four fields is parsed to a record; str2fs fails
\* only on a line of fewer than four fields.
C8_FourFieldsParse ==
    pc = "parsed" =>
        ((parsed.status = "panic") <=> (Len(split(line, TAB)) < 4))

\* C9: the records the retention functions consider for the current
\* filesystem were all made under the prefix and the label of this run.
C9_LabelsDoNotInterfere ==
    evald =>
        \A s \in filter_snaps(zfs, cur, snsl) :
            \A r \in Range(s) : MadeByThisRun(r.name)

\* C10: find_expendable_snapshots and next_snapshot_needed give the same
\* result for every permutation of the snapshot listing.
C10_SameForEveryPermutation ==
    evald =>
        \A q \in Permutations(1..Len(snsl)) :
            LET s2 == [i \in 1..Len(snsl) |-> snsl[q[i]]]
            IN  /\ \A f \in find_expendable_snapshots(zfs, cur, s2) :
                      Range(f) = Range(found)
                /\ min_size.some =>
                      next_snapshot_needed(zfs, min_size.v, cur, s2) = {needed}

====
